---- MODULE Spec2Model ----
(***************************************************************************)
(* The epicycle trajectory engine of blend.py: class Circle and class      *)
(* Epicycle, as a state machine over one Epicycle object.                  *)
(*                                                                         *)
(* Numbers.  Angles are counted in quarter turns (units of pi/2): time     *)
(* samples and initial phases are integers in that unit and speeds are     *)
(* integers, so speed*t + angle_i is an integer number of quarter turns    *)
(* and cos/sin take the exact values 1, 0, -1, 0 / 0, 1, 0, -1.  Radii are *)
(* integers.  A period is a rational multiple of pi, [num, den] standing   *)
(* for num*pi/den (0.0 is [0, 1], 2*pi/L is [2, L]).                       *)
(*                                                                         *)
(* Arrays are sequences.  A 1-D numpy array of shape (n,) is a sequence of *)
(* length n; the 4xN trajectory matrix is a sequence of 4 rows.            *)
(***************************************************************************)
EXTENDS Integers, Sequences

VARIABLES
    _circles,             \* Epicycle._circles: list of Circle
    _time,                \* Epicycle._time
    _x,                   \* Epicycle._x
    _y,                   \* Epicycle._y
    _period_changed,      \* Epicycle._period_changed
    _trajectory_changed,  \* Epicycle._trajectory_changed
    _period,              \* Epicycle._period
    _trajectory,          \* Epicycle._trajectory
    result                \* outcome of the last call: what it was, how it ended, what it returned

vars == <<_circles, _time, _x, _y, _period_changed, _trajectory_changed,
          _period, _trajectory, result>>

----------------------------------------------------------------------------
(* Bounds of the model and the inputs the caller draws from. *)

MaxCircles == 2

MaxLen == 1

MaxBatch == 2

\* The arguments of a single add_circle call: radius 2, speed 2, phase pi/2.
Radii == {2}

Speeds == {2}

Phases == {1}

TimeVals == {0, 1}

Arrays1D == UNION {[1..n -> TimeVals] : n \in 0..MaxLen}

\* Values a caller may assign to Epicycle.time: 1-D ndarrays, 2-D ndarrays
\* (ndim 2, their data flattened) and a plain list, which is no ndarray.
TimeInputs ==
    {[ndarray |-> TRUE, ndim |-> 1, data |-> d] : d \in Arrays1D}
        \cup {[ndarray |-> TRUE, ndim |-> 2, data |-> d] : d \in {<<>>, <<0, 1>>}}
        \cup {[ndarray |-> FALSE, ndim |-> 1, data |-> <<1>>]}

ListsOf(S) == UNION {[1..n -> S] : n \in 0..MaxBatch}

\* The values the lists of a batch (add_circles) are filled with: radius 1,
\* speed 3, phase 0, so that a batch circle differs from a single one in
\* every parameter.
BatchRadii == {1}

BatchSpeeds == {3}

BatchPhases == {0}

----------------------------------------------------------------------------
(* numpy helpers *)

Cos(a) == CASE a % 4 = 0 -> 1 [] a % 4 = 1 -> 0 [] a % 4 = 2 -> -1 [] OTHER -> 0

Sin(a) == CASE a % 4 = 0 -> 0 [] a % 4 = 1 -> 1 [] a % 4 = 2 -> 0 [] OTHER -> -1

zeros_like(a) == [i \in 1..Len(a) |-> 0]

ones_like(a) == [i \in 1..Len(a) |-> 1]

\* x += v on 1-D arrays: v must have x's shape or broadcast to it (length 1);
\* anything else raises ValueError and leaves x as it was.
iadd_ok(x, v) == Len(v) = Len(x) \/ Len(v) = 1

iadd(x, v) == [i \in 1..Len(x) |-> x[i] + (IF Len(v) = Len(x) THEN v[i] ELSE v[1])]

\* np.stack of 1-D arrays: all must have the same shape.
stack_ok(rows) == \A i \in 1..Len(rows) : Len(rows[i]) = Len(rows[1])

RECURSIVE gcd(_, _)
gcd(a, b) == IF b = 0 THEN a ELSE gcd(b, a % b)

lcm(a, b) == IF a = 0 \/ b = 0 THEN 0 ELSE (a * b) \div gcd(a, b)

\* np.lcm.reduce over a non-empty array (lcm has no identity: the empty
\* reduction raises ValueError, handled by the caller).
RECURSIVE lcm_reduce(_, _)
lcm_reduce(a, k) ==
    IF k = 1 THEN a[1] ELSE lcm(lcm_reduce(a, k - 1), a[k])

----------------------------------------------------------------------------
(* class Circle *)

\* Circle.__init__ with angles given (Epicycle always passes self._time):
\* _angles is the array passed in, _local_x and _local_y start empty.
Circle(radius, speed, angle_i, angles) ==
    [radius |-> radius, speed |-> speed, angle_i |-> angle_i,
     _angles |-> angles, _local_x |-> <<>>, _local_y |-> <<>>]

\* Circle.update_arrays(time) for a 1-D ndarray (the only kind the time
\* setter passes on).
update_arrays(c, time) ==
    LET angles == [i \in 1..Len(time) |-> time[i] * c.speed + c.angle_i]
    IN  [c EXCEPT !._angles = angles,
                  !._local_x = [i \in 1..Len(time) |-> c.radius * Cos(angles[i])],
                  !._local_y = [i \in 1..Len(time) |-> c.radius * Sin(angles[i])]]

----------------------------------------------------------------------------
(* class Epicycle.  The object is a record; each method is an operator     *)
(* from the object (and arguments) to the object after the call, with the  *)
(* way the call ended.                                                     *)

Self ==
    [_circles |-> _circles, _time |-> _time, _x |-> _x, _y |-> _y,
     _period_changed |-> _period_changed,
     _trajectory_changed |-> _trajectory_changed,
     _period |-> _period, _trajectory |-> _trajectory]

\* Epicycle.__init__
Epicycle ==
    [_circles |-> <<>>, _time |-> <<>>, _x |-> <<>>, _y |-> <<>>,
     _period_changed |-> TRUE, _trajectory_changed |-> TRUE,
     _period |-> [num |-> 0, den |-> 1], _trajectory |-> <<>>]

\* The loop of _update_xy from circle k on: stops at the first += that raises.
RECURSIVE update_xy_loop(_, _)
update_xy_loop(self, k) ==
    IF k > Len(self._circles) THEN [self |-> self, status |-> "ok"]
    ELSE IF ~iadd_ok(self._x, self._circles[k]._local_x)
         THEN [self |-> self, status |-> "ValueError"]
    ELSE LET s1 == [self EXCEPT !._x = iadd(self._x, self._circles[k]._local_x)]
         IN  IF ~iadd_ok(s1._y, s1._circles[k]._local_y)
             THEN [self |-> s1, status |-> "ValueError"]
             ELSE update_xy_loop(
                      [s1 EXCEPT !._y = iadd(s1._y, s1._circles[k]._local_y)],
                      k + 1)

\* Mutant of _update_xy: the aggregation pass forgets to mark the trajectory
\* cache dirty.
update_xy_keeps_cache(self) ==
    update_xy_loop([self EXCEPT !._x = zeros_like(self._time),
                                !._y = zeros_like(self._time)], 1)

\* Epicycle._update_xy
update_xy(self) ==
    LET r == update_xy_loop(
                 [self EXCEPT !._x = zeros_like(self._time),
                              !._y = zeros_like(self._time)], 1)
    IN  IF r.status = "ok"
        THEN [self |-> [r.self EXCEPT !._trajectory_changed = TRUE], status |-> "ok"]
        ELSE r

\* Mutant of add_circle: the period cache is not invalidated.
add_circle_keeps_period(self, radius, speed, angle_i) ==
    [self EXCEPT !._circles = Append(self._circles,
                                      Circle(radius, speed, angle_i, self._time)),
                 !._trajectory_changed = TRUE]

\* Epicycle.add_circle
add_circle(self, radius, speed, angle_i) ==
    [self EXCEPT !._circles = Append(self._circles,
                                      Circle(radius, speed, angle_i, self._time)),
                 !._period_changed = TRUE,
                 !._trajectory_changed = TRUE]

\* The for loop of add_circles from index i on: radius[i], speed[i] and
\* angle_i[i] are evaluated before the call, so a short list raises
\* IndexError with the circles of the earlier indices already appended.
RECURSIVE add_circles_loop(_, _, _, _, _)
add_circles_loop(self, radius, speed, angle_i, i) ==
    IF i > Len(radius) THEN [self |-> self, status |-> "ok"]
    ELSE IF i > Len(speed) \/ i > Len(angle_i)
         THEN [self |-> self, status |-> "IndexError"]
    ELSE add_circles_loop(add_circle(self, radius[i], speed[i], angle_i[i]),
                          radius, speed, angle_i, i + 1)

\* The guard of add_circles: Python's chained comparison a != b != c is
\* (a != b) and (b != c).
lengths_rejected(radius, speed, angle_i) ==
    Len(radius) # Len(speed) /\ Len(speed) # Len(angle_i)

\* Epicycle.add_circles
add_circles(self, radius, speed, angle_i) ==
    IF lengths_rejected(radius, speed, angle_i)
    THEN [self |-> self, status |-> "ValueError"]
    ELSE LET r == add_circles_loop(self, radius, speed, angle_i, 1)
         IN  IF r.status = "ok" THEN update_xy(r.self) ELSE r

\* Mutant of the refresh loop: the last circle of the list is skipped.
refresh_all_but_last(circles, time) ==
    [k \in 1..Len(circles) |->
        IF k = Len(circles) THEN circles[k] ELSE update_arrays(circles[k], time)]

\* The refresh loop of the time setter.
refresh_circles(circles, time) ==
    [k \in 1..Len(circles) |-> update_arrays(circles[k], time)]

\* Mutant of the time setter: the combined arrays are reset before the
\* argument is validated.
set_time_resets_first(self, value) ==
    LET s0 == [self EXCEPT !._x = zeros_like(self._time),
                           !._y = zeros_like(self._time)]
    IN  IF value.ndarray /\ value.ndim = 1
        THEN update_xy([s0 EXCEPT !._time = value.data,
                                  !._x = zeros_like(value.data),
                                  !._y = zeros_like(value.data),
                                  !._circles = refresh_circles(self._circles, value.data)])
        ELSE [self |-> s0, status |-> "ValueError"]

\* Epicycle.time setter
set_time(self, value) ==
    IF value.ndarray /\ value.ndim = 1
    THEN update_xy([self EXCEPT !._time = value.data,
                                !._x = zeros_like(value.data),
                                !._y = zeros_like(value.data),
                                !._circles = refresh_circles(self._circles, value.data)])
    ELSE [self |-> self, status |-> "ValueError"]

\* Mutant of the trajectory getter: the dirty flag is never cleared, so every
\* read recomputes.
trajectory_never_clean(self) ==
    LET rows == <<self._x, self._y, zeros_like(self._time), ones_like(self._time)>>
    IN  IF self._trajectory_changed /\ stack_ok(rows)
        THEN [self |-> [self EXCEPT !._trajectory = rows],
              status |-> "ok", recomputed |-> TRUE, value |-> rows]
        ELSE [self |-> self, status |-> "ok", recomputed |-> FALSE,
              value |-> self._trajectory]

\* Epicycle.trajectory getter
trajectory(self) ==
    IF self._trajectory_changed
    THEN LET rows == <<self._x, self._y, zeros_like(self._time), ones_like(self._time)>>
         IN  IF stack_ok(rows)
             THEN [self |-> [self EXCEPT !._trajectory = rows,
                                         !._trajectory_changed = FALSE],
                   status |-> "ok", recomputed |-> TRUE, value |-> rows]
             ELSE [self |-> self, status |-> "ValueError", recomputed |-> TRUE,
                   value |-> <<>>]
    ELSE [self |-> self, status |-> "ok", recomputed |-> FALSE,
          value |-> self._trajectory]

\* Epicycle.period getter
period(self) ==
    IF self._period_changed
    THEN LET speeds == [k \in 1..Len(self._circles) |-> self._circles[k].speed]
         IN  IF Len(speeds) = 0
             THEN [self |-> self, status |-> "ValueError", recomputed |-> TRUE,
                   value |-> self._period]
             ELSE LET p == [num |-> 2, den |-> lcm_reduce(speeds, Len(speeds))]
                  IN  [self |-> [self EXCEPT !._period = p,
                                             !._period_changed = FALSE],
                       status |-> "ok", recomputed |-> TRUE, value |-> p]
    ELSE [self |-> self, status |-> "ok", recomputed |-> FALSE,
          value |-> self._period]

----------------------------------------------------------------------------
(* The state machine: one action per call on the Epicycle. *)

Commit(self) ==
    /\ _circles' = self._circles
    /\ _time' = self._time
    /\ _x' = self._x
    /\ _y' = self._y
    /\ _period_changed' = self._period_changed
    /\ _trajectory_changed' = self._trajectory_changed
    /\ _period' = self._period
    /\ _trajectory' = self._trajectory

Outcome(op, status, recomputed, value) ==
    result' = [op |-> op, status |-> status, recomputed |-> recomputed,
               value |-> value]

Init ==
    /\ _circles = Epicycle._circles
    /\ _time = Epicycle._time
    /\ _x = Epicycle._x
    /\ _y = Epicycle._y
    /\ _period_changed = Epicycle._period_changed
    /\ _trajectory_changed = Epicycle._trajectory_changed
    /\ _period = Epicycle._period
    /\ _trajectory = Epicycle._trajectory
    /\ result = [op |-> "__init__", status |-> "ok", recomputed |-> FALSE,
                 value |-> <<>>]

AddCircle(radius, speed, angle_i) ==
    /\ Len(_circles) < MaxCircles
    /\ Commit(add_circle(Self, radius, speed, angle_i))
    /\ Outcome("add_circle", "ok", FALSE, <<>>)

AddCircles(radius, speed, angle_i) ==
    /\ Len(_circles) + Len(radius) <= MaxCircles
    /\ LET r == add_circles(Self, radius, speed, angle_i)
       IN  Commit(r.self) /\ Outcome("add_circles", r.status, FALSE, <<>>)

SetTime(value) ==
    LET r == set_time(Self, value)
    IN  Commit(r.self) /\ Outcome("time", r.status, FALSE, <<>>)

ReadTrajectory ==
    LET r == trajectory(Self)
    IN  Commit(r.self) /\ Outcome("trajectory", r.status, r.recomputed, r.value)

ReadPeriod ==
    LET r == period(Self)
    IN  Commit(r.self) /\ Outcome("period", r.status, r.recomputed, r.value)

Next ==
    \/ \E radius \in Radii, speed \in Speeds, angle_i \in Phases :
           AddCircle(radius, speed, angle_i)
    \/ \E radius \in ListsOf(BatchRadii), speed \in ListsOf(BatchSpeeds),
          angle_i \in ListsOf(BatchPhases) :
           AddCircles(radius, speed, angle_i)
    \/ \E value \in TimeInputs : SetTime(value)
    \/ ReadTrajectory
    \/ ReadPeriod

Spec == Init /\ [][Next]_vars

\* The calls that complete without an exception.
NextOk ==
    \/ \E radius \in Radii, speed \in Speeds, angle_i \in Phases :
           AddCircle(radius, speed, angle_i) /\ result'.status = "ok"
    \/ \E radius \in ListsOf(BatchRadii), speed \in ListsOf(BatchSpeeds),
          angle_i \in ListsOf(BatchPhases) :
           AddCircles(radius, speed, angle_i) /\ result'.status = "ok"
    \/ \E value \in TimeInputs : SetTime(value) /\ result'.status = "ok"
    \/ ReadTrajectory /\ result'.status = "ok"
    \/ ReadPeriod /\ result'.status = "ok"

SpecOk == Init /\ [][NextOk]_vars

----------------------------------------------------------------------------
(* What the specification expects, computed from the circles' parameters   *)
(* and the time domain alone.                                              *)

RECURSIVE SumX(_, _, _)
SumX(circles, t, k) ==
    IF k = 0 THEN 0
    ELSE SumX(circles, t, k - 1)
             + circles[k].radius * Cos(circles[k].speed * t + circles[k].angle_i)

RECURSIVE SumY(_, _, _)
SumY(circles, t, k) ==
    IF k = 0 THEN 0
    ELSE SumY(circles, t, k - 1)
             + circles[k].radius * Sin(circles[k].speed * t + circles[k].angle_i)

ExpectedX(circles, time) ==
    [i \in 1..Len(time) |-> SumX(circles, time[i], Len(circles))]

ExpectedY(circles, time) ==
    [i \in 1..Len(time) |-> SumY(circles, time[i], Len(circles))]

\* A circle's derived arrays agree with the time domain.
CircleConsistent(c, time) ==
    /\ c._angles = [i \in 1..Len(time) |-> c.speed * time[i] + c.angle_i]
    /\ c._local_x = [i \in 1..Len(time) |-> c.radius * Cos(c.speed * time[i] + c.angle_i)]
    /\ c._local_y = [i \in 1..Len(time) |-> c.radius * Sin(c.speed * time[i] + c.angle_i)]

\* The parameters of the circles, without their derived arrays.
Params(circles) ==
    [k \in 1..Len(circles) |->
        <<circles[k].radius, circles[k].speed, circles[k].angle_i>>]

\* What a read of trajectory would return in the current state.
NextRead == trajectory(Self).value

\* What a read of period would return in the current state.
NextPeriod == period(Self)

RECURSIVE SpeedProduct(_, _)
SpeedProduct(circles, k) ==
    IF k = 0 THEN 1 ELSE SpeedProduct(circles, k - 1) * circles[k].speed

\* The least positive integer every circle's speed divides.
LeastCommonMultiple(circles) ==
    CHOOSE m \in 1..SpeedProduct(circles, Len(circles)) :
        /\ \A k \in 1..Len(circles) : m % circles[k].speed = 0
        /\ \A n \in 1..(m - 1) : \E k \in 1..Len(circles) : n % circles[k].speed # 0

StateVars == <<_circles, _time, _x, _y, _period_changed, _trajectory_changed,
               _period, _trajectory>>

----------------------------------------------------------------------------
(* The claims. *)

\* C1: after calls that all completed without error, a read of trajectory
\* returns row 0 = sum over all owned circles of radius*cos(speed*t + angle_i)
\* and row 1 the same with sine, for every sample of the current time domain.
C1_TrajectoryIsSumOfAllCircles ==
    result.op = "trajectory" =>
        /\ result.value[1] = ExpectedX(_circles, _time)
        /\ result.value[2] = ExpectedY(_circles, _time)

\* C2: after add_circle(radius, speed, angle_i) the next read of trajectory
\* differs from the read before the call by exactly the new circle's
\* contribution radius*cos/sin(speed*t + angle_i).
C2_AddCircleShowsInNextRead ==
    [][\A radius \in Radii, speed \in Speeds, angle_i \in Phases :
           AddCircle(radius, speed, angle_i) =>
               /\ NextRead'[1] = [i \in 1..Len(_time) |->
                      NextRead[1][i] + radius * Cos(speed * _time[i] + angle_i)]
               /\ NextRead'[2] = [i \in 1..Len(_time) |->
                      NextRead[2][i] + radius * Sin(speed * _time[i] + angle_i)]]_vars

\* C3: a successful assignment to time keeps every circle of the list and
\* refreshes each one over the new domain; x and y are the sums of the
\* circles' arrays and the trajectory cache is dirty.
C3_TimeRefreshesEveryCircle ==
    [][(result'.op = "time" /\ result'.status = "ok") =>
           /\ Params(_circles') = Params(_circles)
           /\ \A k \in 1..Len(_circles') : CircleConsistent(_circles'[k], _time')
           /\ _x' = ExpectedX(_circles', _time')
           /\ _y' = ExpectedY(_circles', _time')
           /\ _trajectory_changed']_vars

C3_Witness ==
    /\ result.op = "time"
    /\ result.status = "ok"
    /\ Len(_circles) = 2
    /\ Len(_time) >= 1
    /\ \E i \in 1..Len(_time) : _x[i] # 0

\* C4: add_circles raises ValueError whenever the three lengths are not all
\* equal.
C4_MismatchedLengthsRaiseValueError ==
    [][result'.op = "add_circles" =>
           \A radius \in ListsOf(BatchRadii), speed \in ListsOf(BatchSpeeds),
              angle_i \in ListsOf(BatchPhases) :
               (/\ AddCircles(radius, speed, angle_i)
                /\ ~(Len(radius) = Len(speed) /\ Len(speed) = Len(angle_i)))
                   => result'.status = "ValueError"]_vars

\* C5: an add_circles call that ends in an error leaves the circle list, x, y
\* and the value of the next trajectory read as they were.
C5_FailedBatchChangesNothing ==
    [][(result'.op = "add_circles" /\ result'.status # "ok") =>
           /\ _circles' = _circles
           /\ _x' = _x
           /\ _y' = _y
           /\ NextRead' = NextRead]_vars

\* C6: assigning a value that is not a 1-D ndarray to time raises ValueError
\* and changes nothing; assigning a 1-D ndarray succeeds, and when it has
\* length 0 the next trajectory read has zero columns.
C6_TimeValidation ==
    [][result'.op = "time" =>
           /\ \A value \in TimeInputs :
                  \/ result'.status = "ValueError" <=> ~(value.ndarray /\ value.ndim = 1)
                  \/ ~SetTime(value)
           /\ result'.status = "ValueError" => UNCHANGED StateVars
           /\ (result'.status = "ok" /\ Len(_time') = 0) =>
                  /\ Len(NextRead') = 4
                  /\ \A i \in 1..4 : Len(NextRead'[i]) = 0]_vars

C6_Witness ==
    /\ result.op = "time"
    /\ result.status = "ValueError"
    /\ Len(_circles) >= 1
    /\ \E i \in 1..Len(_x) : _x[i] # 0

\* C7: in every reachable state a read of trajectory succeeds and returns a
\* 4xN matrix, N the length of the time domain, with row 2 all 0 and row 3
\* all 1; x, y and the time domain have the same length.
C7_TrajectoryShape ==
    LET r == trajectory(Self)
    IN  /\ r.status = "ok"
        /\ Len(r.value) = 4
        /\ \A i \in 1..4 : Len(r.value[i]) = Len(_time)
        /\ \A i \in 1..Len(_time) : r.value[3][i] = 0 /\ r.value[4][i] = 1
        /\ Len(_x) = Len(_time)
        /\ Len(_y) = Len(_time)
        /\ result.op = "trajectory" => (result.status = "ok" /\ result.value = r.value)

C7_Witness ==
    /\ result.op = "trajectory"
    /\ Len(_time) >= 1
    /\ \E k \in 1..Len(_circles) : Len(_circles[k]._local_x) # Len(_time)

\* C8: a read of trajectory or period changes nothing but its own dirty flag
\* and cache, returns the cache, does not recompute when the flag is clear,
\* and a second read right after a read returns the same value without
\* recomputing.
C8_CachedReads ==
    [][/\ (result'.op = "trajectory" /\ result'.status = "ok") =>
              /\ UNCHANGED <<_circles, _time, _x, _y, _period_changed, _period>>
              /\ ~_trajectory_changed'
              /\ result'.value = _trajectory'
              /\ ~_trajectory_changed =>
                     (_trajectory' = _trajectory /\ ~result'.recomputed)
              /\ result.op = "trajectory" =>
                     (result'.value = result.value /\ ~result'.recomputed)
       /\ (result'.op = "period" /\ result'.status = "ok") =>
              /\ UNCHANGED <<_circles, _time, _x, _y, _trajectory_changed, _trajectory>>
              /\ ~_period_changed'
              /\ result'.value = _period'
              /\ ~_period_changed =>
                     (_period' = _period /\ ~result'.recomputed)
              /\ (result.op = "period" /\ result.status = "ok") =>
                     (result'.value = result.value /\ ~result'.recomputed)]_vars

C8_Witness ==
    /\ result.op = "trajectory"
    /\ ~result.recomputed
    /\ Len(_circles) >= 1
    /\ \E i \in 1..Len(_time) : result.value[1][i] # 0

\* C9: with at least one circle (speeds are positive integers), a read of
\* period returns 2*pi / lcm of the speeds of all owned circles: the value a
\* read would return in any state, and the value the last read returned, are
\* that number, whatever calls (add_circle, add_circles, time assignments)
\* came before; it depends on the circles' speeds alone, so assigning time
\* does not change it.
C9_PeriodIsTwoPiOverLcm ==
    Len(_circles) >= 1 =>
        /\ NextPeriod.status = "ok"
        /\ NextPeriod.value = [num |-> 2, den |-> LeastCommonMultiple(_circles)]
        /\ ~_period_changed => _period = NextPeriod.value
        /\ result.op = "period" =>
               (result.status = "ok" /\ result.value = NextPeriod.value)

C9_Witness ==
    /\ result.op = "period"
    /\ result.status = "ok"
    /\ Len(_circles) = 2
    /\ result.value = [num |-> 2, den |-> 6]

\* C10: in every reachable state every owned circle's angles, local_x and
\* local_y are those of the current time domain, from the moment add_circle
\* constructed it.
C10_CirclesConsistentWithTime ==
    \A k \in 1..Len(_circles) : CircleConsistent(_circles[k], _time)

====
